---------------------------- MODULE Spec2Model ----------------------------
(***************************************************************************)
(* Keyboard<N> (src/src/Keyboard.hpp): a polled key debouncer.             *)
(*                                                                         *)
(* The debouncer's members (m_keys, m_states, m_callback, m_debounceMs,    *)
(* lastRead) are the state; its collaborators are the millisecond clock    *)
(* returned by m_getMillis() and the pin levels returned by                *)
(* GPIO_ReadInputDataBit().  Every public method is one action.  `last`    *)
(* records what the step just taken returned and which callbacks it made;  *)
(* the h_ variables are history variables that the program does not hold.  *)
(*                                                                         *)
(* uint32_t is scaled down to UintBits bits: all clock arithmetic is done  *)
(* modulo 2^UintBits, as the program does it modulo 2^32.                  *)
(***************************************************************************)
EXTENDS Integers, Sequences, FiniteSets

VARIABLES m_keys, m_states, m_callback, m_debounceMs, lastRead,
          clock, pins, last, h_time, h_pressAt, h_prev, h_gate, h_lost

dev  == <<m_keys, m_states, m_callback, m_debounceMs, lastRead>>
env  == <<clock, pins>>
hist == <<h_time, h_pressAt, h_prev, h_gate, h_lost>>
vars == <<m_keys, m_states, m_callback, m_debounceMs, lastRead,
          clock, pins, last, h_time, h_pressAt, h_prev, h_gate, h_lost>>

---------------------------------------------------------------------------
(* Bounds of the model *)

UintBits == 10      \* width of the scaled uint32_t
MaxTime  == 30      \* the clock runs from 0 to MaxTime under Spec
Step     == 10      \* the clock advances by Step milliseconds per Tick

Modulus == 2 ^ UintBits

(* Program constants *)

DefaultDebounceMs == 20
Bit_RESET == 0
Bit_SET   == 1

nullptr == "<nullptr>"

---------------------------------------------------------------------------
(* Inputs: the key configurations a debouncer is constructed with, the     *)
(* values setDebounce() is called with, the identifiers isPressed() is     *)
(* asked about.                                                            *)

KeyConfig(pin, activeLevel, name, holdTimeMs) ==
  [pin |-> pin, activeLevel |-> activeLevel, name |-> name,
   holdTimeMs |-> holdTimeMs]

UpDownKeys ==
  << KeyConfig(1, Bit_RESET, "UP", 30), KeyConfig(2, Bit_RESET, "DOWN", 10) >>

KeyConfigs ==
  { UpDownKeys,
    << KeyConfig(1, Bit_SET,   "UP", 20),   KeyConfig(2, Bit_RESET, "UP", 0) >>,
    << KeyConfig(1, Bit_RESET, nullptr, 10), KeyConfig(2, Bit_SET,  "UP", 20) >> }

DebounceChoices == {0, 10, 20}

QueryIds == {"UP", "DOWN", nullptr}

Keys   == 1..Len(m_keys)
PinIds == {m_keys[i].pin : i \in Keys}
Levels == {Bit_RESET, Bit_SET}

---------------------------------------------------------------------------
(* uint32_t subtraction *)
SubMutSigned(a, b) == a - b

Sub(a, b) == (a - b + Modulus) % Modulus

(* KeyState m_states[N] = {} *)
KeyState(pressed, pressTime) == [pressed |-> pressed, pressTime |-> pressTime]

InitStates(keys) == [i \in 1..Len(keys) |-> KeyState(FALSE, 0)]

(* bool isPressed(const char *keyName) const *)
RECURSIVE IsPressedFrom(_, _, _, _)
IsPressedFrom(i, keyName, keys, states) ==
  IF i > Len(keys) THEN FALSE
  ELSE IF keys[i].name # nullptr /\ keyName # nullptr /\ keys[i].name = keyName
       THEN states[i].pressed
       ELSE IsPressedFrom(i + 1, keyName, keys, states)

IsPressedMutLast(keyName, keys, states) ==
  LET M == {i \in 1..Len(keys) : keys[i].name # nullptr /\ keyName # nullptr
                                   /\ keys[i].name = keyName}
  IN  IF M = {} THEN FALSE
      ELSE states[CHOOSE i \in M : \A j \in M : j <= i].pressed

isPressed(keyName, keys, states) == IsPressedFrom(1, keyName, keys, states)

(* The handler registered by setCallback(): it receives the event and may  *)
(* query isPressed() while the scan is under way.  `key` is the index of   *)
(* the key the event is about (not passed to the handler).                 *)
KeyEvent(name, isLongPress, pressDuration) ==
  [name |-> name, isLongPress |-> isLongPress, pressDuration |-> pressDuration]

onKeyEvent(key, e, keys, states) ==
  [key |-> key, e |-> e,
   seen |-> [id \in QueryIds |-> isPressed(id, keys, states)],
   flags |-> [j \in 1..Len(keys) |-> states[j].pressed]]

---------------------------------------------------------------------------
(* bool Keyboard<N>::update() *)

(* if (now - lastRead < m_debounceMs) return false; *)
TooSoonMutSwapped(now, lr, debounceMs) == Sub(lr, now) < debounceMs

TooSoon(now, lr, debounceMs) == Sub(now, lr) < debounceMs

(* bool raw = (GPIO_ReadInputDataBit(cfg.port, cfg.pin) == cfg.activeLevel) *)
ReadRaw(cfg, p) == (p[cfg.pin] = cfg.activeLevel)

(* if (raw && !state.pressed) *)
Pressing(raw, state) == raw /\ ~state.pressed

(* state.pressed = raw; state.pressTime = now; *)
PressStateMutNoTime(state, raw, now) == [state EXCEPT !.pressed = raw]

PressState(state, raw, now) == [state EXCEPT !.pressed = raw, !.pressTime = now]

(* if (!raw && state.pressed) *)
Releasing(raw, state) == ~raw /\ state.pressed

(* uint32_t duration = now - state.pressTime *)
Duration(now, state) == Sub(now, state.pressTime)

(* bool isLong = (duration >= cfg.holdTimeMs) *)
IsLongMutStrict(duration, cfg) == duration > cfg.holdTimeMs

IsLong(duration, cfg) == duration >= cfg.holdTimeMs

ScanKeyMutNoFlag(i, now, keys, p, cb, acc) ==
  LET cfg   == keys[i]
      state == acc.states[i]
      raw   == ReadRaw(cfg, p)
  IN  IF Pressing(raw, state)
      THEN [acc EXCEPT !.states[i] = PressState(state, raw, now),
                       !.anyKeyChanged = TRUE]
      ELSE IF Releasing(raw, state)
      THEN LET duration == Duration(now, state)
               isLong   == IsLong(duration, cfg)
               released == [acc.states EXCEPT ![i].pressed = raw]
           IN  [states        |-> released,
                anyKeyChanged |-> IF cb THEN TRUE ELSE acc.anyKeyChanged,
                fired         |-> IF cb
                                  THEN Append(acc.fired,
                                         onKeyEvent(i, KeyEvent(cfg.name, isLong, duration),
                                                    keys, released))
                                  ELSE acc.fired]
      ELSE acc

ScanKeyMutCallFirst(i, now, keys, p, cb, acc) ==
  LET cfg   == keys[i]
      state == acc.states[i]
      raw   == ReadRaw(cfg, p)
  IN  IF Pressing(raw, state)
      THEN [acc EXCEPT !.states[i] = PressState(state, raw, now),
                       !.anyKeyChanged = TRUE]
      ELSE IF Releasing(raw, state)
      THEN LET duration == Duration(now, state)
               isLong   == IsLong(duration, cfg)
               released == [acc.states EXCEPT ![i].pressed = raw]
           IN  [states        |-> released,
                anyKeyChanged |-> TRUE,
                fired         |-> IF cb
                                  THEN Append(acc.fired,
                                         onKeyEvent(i, KeyEvent(cfg.name, isLong, duration),
                                                    keys, acc.states))
                                  ELSE acc.fired]
      ELSE acc

(* One pass of the for loop over key i; acc carries m_states, anyKeyChanged *)
(* and the handler invocations made so far in this call.                    *)
ScanKey(i, now, keys, p, cb, acc) ==
  LET cfg   == keys[i]
      state == acc.states[i]
      raw   == ReadRaw(cfg, p)
  IN  IF Pressing(raw, state)
      THEN [acc EXCEPT !.states[i] = PressState(state, raw, now),
                       !.anyKeyChanged = TRUE]
      ELSE IF Releasing(raw, state)
      THEN LET duration == Duration(now, state)
               isLong   == IsLong(duration, cfg)
               released == [acc.states EXCEPT ![i].pressed = raw]
           IN  [states        |-> released,
                anyKeyChanged |-> TRUE,
                fired         |-> IF cb
                                  THEN Append(acc.fired,
                                         onKeyEvent(i, KeyEvent(cfg.name, isLong, duration),
                                                    keys, released))
                                  ELSE acc.fired]
      ELSE acc

(* for (size_t i = 0; i < N; ++i) { ... continue; ... } *)
RECURSIVE ScanFromMutBreak(_, _, _, _, _, _)
ScanFromMutBreak(i, now, keys, p, cb, acc) ==
  IF i > Len(keys) THEN acc
  ELSE LET one == ScanKey(i, now, keys, p, cb, acc)
       IN  IF one # acc THEN one
           ELSE ScanFromMutBreak(i + 1, now, keys, p, cb, one)

RECURSIVE ScanFrom(_, _, _, _, _, _)
ScanFrom(i, now, keys, p, cb, acc) ==
  IF i > Len(keys) THEN acc
  ELSE ScanFrom(i + 1, now, keys, p, cb, ScanKey(i, now, keys, p, cb, acc))

updateMutNoStamp(now, keys, states, lr, debounceMs, cb, p) ==
  IF TooSoon(now, lr, debounceMs)
  THEN [states |-> states, lastRead |-> lr, ret |-> FALSE,
        fired |-> <<>>, accepted |-> FALSE]
  ELSE LET acc == ScanFrom(1, now, keys, p, cb,
                           [states |-> states, anyKeyChanged |-> FALSE,
                            fired |-> <<>>])
       IN  [states |-> acc.states, lastRead |-> lr, ret |-> acc.anyKeyChanged,
            fired |-> acc.fired, accepted |-> TRUE]

update(now, keys, states, lr, debounceMs, cb, p) ==
  IF TooSoon(now, lr, debounceMs)
  THEN [states |-> states, lastRead |-> lr, ret |-> FALSE,
        fired |-> <<>>, accepted |-> FALSE]
  ELSE LET acc == ScanFrom(1, now, keys, p, cb,
                           [states |-> states, anyKeyChanged |-> FALSE,
                            fired |-> <<>>])
       IN  [states |-> acc.states, lastRead |-> now, ret |-> acc.anyKeyChanged,
            fired |-> acc.fired, accepted |-> TRUE]

(* void clear() *)
clearMutKeepTime(states, lr) ==
  [states   |-> [i \in DOMAIN states |-> [states[i] EXCEPT !.pressed = FALSE]],
   lastRead |-> 0,
   fired    |-> <<>>]

clearMutRewind(states, lr) ==
  [states   |-> [i \in DOMAIN states |-> KeyState(FALSE, 0)],
   lastRead |-> Sub(lr, 1),
   fired    |-> <<>>]

clearMutKeepPressed(states, lr) ==
  [states   |-> [i \in DOMAIN states |-> [states[i] EXCEPT !.pressTime = 0]],
   lastRead |-> 0,
   fired    |-> <<>>]

clear(states, lr) ==
  [states   |-> [i \in DOMAIN states |-> KeyState(FALSE, 0)],
   lastRead |-> 0,
   fired    |-> <<>>]

(* void getStatus(KeyStatus (&out)[N]) const *)
getStatusMutStrict(now, keys, states) ==
  [i \in 1..Len(keys) |->
     IF states[i].pressed
     THEN LET pressDuration == Sub(now, states[i].pressTime)
          IN  [name |-> keys[i].name, isPressed |-> TRUE,
               pressDuration |-> pressDuration,
               isLongPress |-> (pressDuration > keys[i].holdTimeMs)]
     ELSE [name |-> keys[i].name, isPressed |-> FALSE,
           pressDuration |-> 0, isLongPress |-> FALSE]]

getStatus(now, keys, states) ==
  [i \in 1..Len(keys) |->
     IF states[i].pressed
     THEN LET pressDuration == Sub(now, states[i].pressTime)
          IN  [name |-> keys[i].name, isPressed |-> TRUE,
               pressDuration |-> pressDuration,
               isLongPress |-> (pressDuration >= keys[i].holdTimeMs)]
     ELSE [name |-> keys[i].name, isPressed |-> FALSE,
           pressDuration |-> 0, isLongPress |-> FALSE]]

---------------------------------------------------------------------------
(* What the step just taken did; every step sets it anew ("none": a step  *)
(* that returns nothing and calls no handler).  h_prev is the previous     *)
(* update() call: when it was made, whether it passed the gate, and        *)
(* whether clear() or setDebounce() was called since.  h_gate is the time  *)
(* (which neither wraps nor goes back) of the last accepted poll, -1 when  *)
(* there is none or clear() was called since.  h_lost[i] says that clear() *)
(* dropped a registered press of key i while its button was down, and that *)
(* the button has stayed down and no poll has registered it again since.   *)

Step0(op) ==
  [op |-> op, arg |-> nullptr, ret |-> FALSE, accepted |-> FALSE,
   fired |-> <<>>, out |-> <<>>, hadPressed |-> FALSE, again |-> FALSE,
   behind |-> FALSE, spaced |-> FALSE, quick |-> FALSE, repressed |-> FALSE]

NoPrev == [at |-> -1, accepted |-> FALSE, touched |-> FALSE]

---------------------------------------------------------------------------
(* State after construction: Keyboard(keys, getMillis, autoInit) *)

Init ==
  /\ m_keys \in KeyConfigs
  /\ m_states = InitStates(m_keys)
  /\ m_callback = FALSE
  /\ m_debounceMs = DefaultDebounceMs
  /\ lastRead = 0
  /\ clock = 0
  /\ pins \in [PinIds -> Levels]
  /\ last = Step0("none")
  /\ h_time = 0
  /\ h_pressAt = [i \in Keys |-> -1]
  /\ h_prev = NoPrev
  /\ h_gate = -1
  /\ h_lost = [i \in Keys |-> FALSE]

(* The host calls update() *)
Update ==
  LET r == update(clock, m_keys, m_states, lastRead, m_debounceMs, m_callback, pins)
  IN  /\ m_states' = r.states
      /\ lastRead' = r.lastRead
      /\ last' = [Step0("update") EXCEPT
                    !.ret = r.ret, !.accepted = r.accepted, !.fired = r.fired,
                    !.behind = (clock < lastRead),
                    !.spaced = (r.accepted /\ h_gate >= 0),
                    !.repressed = (\E i \in Keys : h_lost[i] /\ r.states[i].pressed),
                    !.quick = (/\ r.accepted /\ last.op = "clear"
                               /\ h_prev.accepted
                               /\ h_time - h_prev.at < m_debounceMs)]
      /\ h_pressAt' = [i \in Keys |->
                         IF ~m_states[i].pressed /\ r.states[i].pressed THEN h_time
                         ELSE IF m_states[i].pressed /\ ~r.states[i].pressed THEN -1
                         ELSE h_pressAt[i]]
      /\ h_prev' = [at |-> h_time, accepted |-> r.accepted, touched |-> FALSE]
      /\ h_gate' = IF r.accepted THEN h_time ELSE h_gate
      /\ h_lost' = [i \in Keys |->
                      h_lost[i] /\ ~r.states[i].pressed]
      /\ UNCHANGED <<m_keys, m_callback, m_debounceMs, clock, pins, h_time>>

(* The host calls clear() *)
Clear ==
  LET r == clear(m_states, lastRead)
  IN  /\ m_states' = r.states
      /\ lastRead' = r.lastRead
      /\ last' = [Step0("clear") EXCEPT
                    !.fired = r.fired,
                    !.hadPressed = (\E i \in Keys : m_states[i].pressed),
                    !.again = (last.op = "clear")]
      /\ h_pressAt' = [i \in Keys |-> -1]
      /\ h_prev' = [h_prev EXCEPT !.touched = TRUE]
      /\ h_gate' = -1
      /\ h_lost' = [i \in Keys |->
                      ReadRaw(m_keys[i], pins) /\ (h_lost[i] \/ m_states[i].pressed)]
      /\ UNCHANGED <<m_keys, m_callback, m_debounceMs, clock, pins, h_time>>

(* The host calls setDebounce(debounceMs) *)
SetDebounce ==
  \E debounceMs \in DebounceChoices :
    /\ m_debounceMs' = debounceMs
    /\ last' = Step0("none")
    /\ h_prev' = [h_prev EXCEPT !.touched = TRUE]
    /\ UNCHANGED <<m_keys, m_states, m_callback, lastRead, clock, pins,
                   h_time, h_pressAt, h_gate, h_lost>>

(* The host calls setCallback(cb): a handler, or nullptr *)
SetCallback ==
  \E cb \in BOOLEAN :
    /\ m_callback' = cb
    /\ last' = Step0("none")
    /\ UNCHANGED <<m_keys, m_states, m_debounceMs, lastRead, clock, pins, hist>>

(* The host (or the handler's code, between polls) calls isPressed(keyName) *)
IsPressed ==
  \E keyName \in QueryIds :
    /\ last' = [Step0("isPressed") EXCEPT !.arg = keyName,
                                           !.ret = isPressed(keyName, m_keys, m_states)]
    /\ UNCHANGED <<dev, env, hist>>

(* The host calls getStatus(out) *)
GetStatus ==
  /\ last' = [Step0("getStatus") EXCEPT !.out = getStatus(clock, m_keys, m_states)]
  /\ UNCHANGED <<dev, env, hist>>

(* The millisecond clock advances *)
Tick ==
  /\ h_time + Step <= MaxTime
  /\ clock' = (clock + Step) % Modulus
  /\ h_time' = h_time + Step
  /\ last' = Step0("none")
  /\ UNCHANGED <<dev, pins, h_pressAt, h_prev, h_gate, h_lost>>

(* A button is pushed or let go: the level of its pin changes *)
SetPin ==
  \E p \in PinIds, level \in Levels :
    /\ pins[p] # level
    /\ pins' = [pins EXCEPT ![p] = level]
    /\ last' = Step0("none")
    /\ h_lost' = [i \in Keys |->
                    h_lost[i] /\ ~(m_keys[i].pin = p /\ level # m_keys[i].activeLevel)]
    /\ UNCHANGED <<dev, clock, h_time, h_pressAt, h_prev, h_gate>>

Next ==
  \/ Update
  \/ Clear
  \/ SetDebounce
  \/ SetCallback
  \/ IsPressed
  \/ GetStatus
  \/ Tick
  \/ SetPin

Spec == Init /\ [][Next]_vars

---------------------------------------------------------------------------
(* A clock that is not monotonic: m_getMillis() may return less than it    *)
(* returned before.  The host leaves the debounce interval at its default  *)
(* or sets one close to the top of the uint32_t range (setDebounce()       *)
(* validates nothing).  The debouncer has the keys UP and DOWN.            *)

ClockBack ==
  \E t \in 0..(clock - 1) :
    /\ t % Step = 0
    /\ clock' = t
    /\ last' = Step0("none")
    /\ UNCHANGED <<dev, pins, hist>>

SetDebounceHuge ==
  /\ m_debounceMs' = Modulus - Step
  /\ last' = Step0("none")
  /\ h_prev' = [h_prev EXCEPT !.touched = TRUE]
  /\ UNCHANGED <<m_keys, m_states, m_callback, lastRead, clock, pins,
                 h_time, h_pressAt, h_gate, h_lost>>

NextClockBack ==
  \/ Update
  \/ Clear
  \/ SetDebounceHuge
  \/ SetCallback
  \/ Tick
  \/ SetPin
  \/ ClockBack

InitUpDown == Init /\ m_keys = UpDownKeys

SpecClockBack == InitUpDown /\ [][NextClockBack]_vars

---------------------------------------------------------------------------
(* A millisecond counter about to wrap: the debouncer with the keys UP and *)
(* DOWN is constructed one or two clock steps before the uint32_t counter  *)
(* returns to zero.  h_time goes on counting the time that really passed.  *)

InitWrap ==
  /\ m_keys = UpDownKeys
  /\ m_states = InitStates(m_keys)
  /\ m_callback = FALSE
  /\ m_debounceMs = DefaultDebounceMs
  /\ lastRead = 0
  /\ clock \in {Modulus - Step, Modulus - 2 * Step}
  /\ pins \in [PinIds -> Levels]
  /\ last = Step0("none")
  /\ h_time = 0
  /\ h_pressAt = [i \in Keys |-> -1]
  /\ h_prev = NoPrev
  /\ h_gate = -1
  /\ h_lost = [i \in Keys |-> FALSE]

NextWrap ==
  \/ Update
  \/ Clear
  \/ SetDebounce
  \/ SetCallback
  \/ Tick
  \/ SetPin

SpecWrap == InitWrap /\ [][NextWrap]_vars

---------------------------------------------------------------------------
(* The scenario of the sample program: the keys UP (hold 1000 ms) and DOWN *)
(* (hold 800 ms), both active low, the default debounce interval, a        *)
(* handler registered, the clock starting at 0.  UP, DOWN or both are held *)
(* down from the start; the host polls at t = 0 and then once every        *)
(* debounce interval, and may call getStatus() after a poll.  The button   *)
(* UP is let go at t = 500 and the button DOWN at t = 900.                 *)

SampleKeys ==
  << KeyConfig(1, Bit_RESET, "UP", 1000), KeyConfig(2, Bit_RESET, "DOWN", 800) >>

InitScenario ==
  /\ m_keys = SampleKeys
  /\ m_states = InitStates(m_keys)
  /\ m_callback = FALSE
  /\ m_debounceMs = DefaultDebounceMs
  /\ lastRead = 0
  /\ clock = 0
  /\ pins \in {p \in [PinIds -> Levels] : \E i \in Keys : ReadRaw(m_keys[i], p)}
  /\ last = Step0("none")
  /\ h_time = 0
  /\ h_pressAt = [i \in Keys |-> -1]
  /\ h_prev = NoPrev
  /\ h_gate = -1
  /\ h_lost = [i \in Keys |-> FALSE]

(* keyboard.setCallback(onKeyEvent) *)
ScenarioSetCallback ==
  /\ ~m_callback
  /\ m_callback' = TRUE
  /\ last' = Step0("none")
  /\ UNCHANGED <<m_keys, m_states, m_debounceMs, lastRead, clock, pins, hist>>

(* One poll at every clock value of the scenario *)
ScenarioPoll ==
  /\ m_callback
  /\ last.op = "none"
  /\ Update

ScenarioStatus ==
  /\ last.op = "update"
  /\ GetStatus

(* One debounce interval passes; the buttons are let go at their times *)
ScenarioTick ==
  /\ last.op \in {"update", "getStatus"}
  /\ clock + m_debounceMs <= 900
  /\ clock' = (clock + m_debounceMs) % Modulus
  /\ h_time' = h_time + m_debounceMs
  /\ pins' = [p \in PinIds |->
                IF \/ clock' = 500 /\ p = m_keys[1].pin
                   \/ clock' = 900 /\ p = m_keys[2].pin
                THEN Bit_SET ELSE pins[p]]
  /\ last' = Step0("none")
  /\ h_lost' = [i \in Keys |-> h_lost[i] /\ ReadRaw(m_keys[i], pins')]
  /\ UNCHANGED <<dev, h_pressAt, h_prev, h_gate>>

NextScenario ==
  \/ ScenarioSetCallback
  \/ ScenarioPoll
  \/ ScenarioStatus
  \/ ScenarioTick

SpecScenario == InitScenario /\ [][NextScenario]_vars

---------------------------------------------------------------------------
(* Properties.  A step of update(), clear() or isPressed() is recognised   *)
(* by last'.op; the unprimed variables are the state the call started in.  *)

Gated   == Sub(clock, lastRead) < m_debounceMs
Raw(i)  == ReadRaw(m_keys[i], pins)
Calls(i, fired) == {k \in 1..Len(fired) : fired[k].key = i}

(* C1: an update() called when less than debounceMs has elapsed since the  *)
(* last accepted poll returns false, leaves every key's pressed flag and   *)
(* press timestamp and lastRead unchanged, and calls no handler, whatever  *)
(* the pin levels are.                                                     *)
C1_TooSoonIsNoOp ==
  [][ (last'.op = "update" /\ Gated)
        => /\ last'.ret = FALSE
           /\ m_states' = m_states
           /\ lastRead' = lastRead
           /\ last'.fired = <<>> ]_vars

(* C1 witness: an update() was turned away while a pin level disagreed     *)
(* with its key's settled state and a handler was registered.              *)
C1_Witness ==
  /\ last.op = "update" /\ ~last.accepted /\ m_callback
  /\ \E i \in Keys : Raw(i) # m_states[i].pressed

(* C2 as stated: of two consecutive update() calls (no clear() or          *)
(* setDebounce() between them) spaced less than debounceMs apart, the      *)
(* second returns false and leaves the key state unchanged, whether or not *)
(* the first was accepted.                                                 *)
C2_Original ==
  [][ (/\ last'.op = "update"
       /\ h_prev.at >= 0 /\ ~h_prev.touched
       /\ h_time - h_prev.at < m_debounceMs)
        => (last'.ret = FALSE /\ m_states' = m_states) ]_vars

(* C2 amended: of two consecutive update() calls (no clear() or            *)
(* setDebounce() between them) spaced less than debounceMs apart, the      *)
(* first of which was accepted, the second returns false and leaves the    *)
(* key state and lastRead unchanged.                                       *)
C2_AfterAcceptedPoll ==
  [][ (/\ last'.op = "update"
       /\ h_prev.at >= 0 /\ ~h_prev.touched /\ h_prev.accepted
       /\ h_time - h_prev.at < m_debounceMs)
        => (last'.ret = FALSE /\ m_states' = m_states /\ lastRead' = lastRead) ]_vars

(* C2 witness: a second update() was turned away less than debounceMs      *)
(* after an accepted one, at a later clock value, while a pin level         *)
(* disagreed with its key's settled state.                                  *)
C2_Witness ==
  /\ last.op = "update" /\ ~last.accepted
  /\ lastRead > 0 /\ clock > lastRead /\ clock - lastRead < m_debounceMs
  /\ \E i \in Keys : Raw(i) # m_states[i].pressed

(* C3 as stated: the update() that follows a clear() is always accepted,   *)
(* whatever the clock value, the elapsed time and debounceMs are.          *)
C3_UpdateAfterClearAccepted ==
  [][ (last.op = "clear" /\ last'.op = "update") => last'.accepted ]_vars

(* C4: when a key whose press was registered by an accepted poll at time T *)
(* is found inactive by an accepted poll at time T+D, the registered       *)
(* handler is called exactly once for that key, with the key's name,       *)
(* pressDuration = D and isLongPress = (D >= holdTimeMs); no handler call   *)
(* is made for a key with no registered press.                             *)
C4_ReleaseReportsDuration ==
  [][ last'.op = "update" =>
        \A i \in Keys :
          LET D == h_time - h_pressAt[i]
              c == Calls(i, last'.fired)
          IN  /\ (h_pressAt[i] >= 0 /\ last'.accepted /\ ~Raw(i) /\ m_callback)
                   => /\ Cardinality(c) = 1
                      /\ \A k \in c :
                           last'.fired[k].e =
                             KeyEvent(m_keys[i].name, D >= m_keys[i].holdTimeMs, D)
              /\ (h_pressAt[i] < 0 => c = {}) ]_vars

(* C4 witness: a poll has just called the handler for the release of a key *)
(* held for at least Step ms and classified as a long press.               *)
C4_Witness ==
  /\ last.op = "update"
  /\ \E k \in 1..Len(last.fired) :
       /\ last.fired[k].e.isLongPress
       /\ last.fired[k].e.pressDuration >= Step

(* C5: if a key's raw level is active while its settled state is released  *)
(* and update() is called at least debounceMs after the last accepted      *)
(* poll, the key is pressed afterwards with press timestamp equal to that  *)
(* poll's now, and no handler is called for that key.                      *)
C5_PressRegistered ==
  [][ last'.op = "update" =>
        \A i \in Keys :
          (Raw(i) /\ ~m_states[i].pressed /\ ~Gated)
            => /\ m_states'[i] = KeyState(TRUE, clock)
               /\ Calls(i, last'.fired) = {} ]_vars

(* C5 witness: an accepted poll at a clock value above zero has just       *)
(* registered a press, with a handler registered.                          *)
C5_Witness ==
  /\ last.op = "update" /\ last.accepted /\ m_callback /\ clock > 0
  /\ \E i \in Keys : /\ m_states[i].pressed /\ m_states[i].pressTime = clock
                     /\ h_pressAt[i] = h_time
                     /\ Calls(i, last.fired) = {}

(* C6: in any update() call, key i's settled flag, press timestamp and     *)
(* handler calls are the same whatever the raw level, the settled flag and *)
(* the press timestamp of every other key are.  OtherStates and OtherPins  *)
(* are the key states and pin levels that agree with the current ones on   *)
(* key i; EventsOf is the sequence of events the handler received for key  *)
(* i in one call.                                                          *)
OtherStates(i) ==
  {st \in [Keys -> [pressed : BOOLEAN, pressTime : {0, Step, clock}]] :
     st[i] = m_states[i]}

OtherPins(i) ==
  {q \in [PinIds -> Levels] : q[m_keys[i].pin] = pins[m_keys[i].pin]}

EventsOf(i, r) == [n \in 1..Cardinality(Calls(i, r.fired)) |->
                     r.fired[CHOOSE k \in Calls(i, r.fired) :
                               Cardinality({j \in Calls(i, r.fired) : j <= k}) = n].e]

C6_KeysIndependent ==
  \A i \in Keys : \A st \in OtherStates(i) : \A q \in OtherPins(i) :
    LET mine  == update(clock, m_keys, m_states, lastRead, m_debounceMs, m_callback, pins)
        other == update(clock, m_keys, st, lastRead, m_debounceMs, m_callback, q)
    IN  /\ other.states[i] = mine.states[i]
        /\ EventsOf(i, other) = EventsOf(i, mine)

(* C6 witness: an accepted poll has just registered the press of one key   *)
(* while another key, pressed earlier, kept its state and timestamp.       *)
C6_Witness ==
  /\ last.op = "update" /\ last.accepted
  /\ \E i, j \in Keys :
       /\ i # j
       /\ m_states[i].pressed /\ m_states[i].pressTime < clock
       /\ m_states[j].pressed /\ m_states[j].pressTime = clock

(* C7: update() returns true if and only if at least one key changed its   *)
(* settled state during the call, with or without a registered handler.    *)
C7_ReturnsChanged ==
  [][ last'.op = "update"
        => (last'.ret <=> \E i \in Keys : m_states'[i].pressed # m_states[i].pressed) ]_vars

(* C7 witness: with no handler registered, a poll returned true and left   *)
(* every key released: it detected a release.                              *)
C7_Witness ==
  /\ last.op = "update" /\ last.ret /\ ~m_callback
  /\ \A i \in Keys : ~m_states[i].pressed

(* C8: after clear() every key's pressed flag is false and its press       *)
(* timestamp zero, isPressed is false for every identifier, and clear()    *)
(* called no handler.                                                      *)
C8_ClearIsSilentReset ==
  [][ last'.op = "clear"
        => /\ \A i \in Keys : m_states'[i] = KeyState(FALSE, 0)
           /\ \A id \in QueryIds : ~isPressed(id, m_keys', m_states')
           /\ last'.fired = <<>> ]_vars

(* C8 witness: clear() was called with a key pressed and a handler         *)
(* registered.                                                             *)
C8_Witness ==
  last.op = "clear" /\ last.hadPressed /\ m_callback

(* C9: a clear() that directly follows a clear() changes nothing of the    *)
(* debouncer: key states, lastRead, debounceMs, handler, configuration.    *)
C9_ClearIdempotent ==
  [][ (last.op = "clear" /\ last'.op = "clear") => UNCHANGED dev ]_vars

(* C9 witness: clear() has just been called directly after a clear().      *)
C9_Witness ==
  last.op = "clear" /\ last.again

(* C10: isPressed(id) returns the pressed flag of the first key in         *)
(* configuration order whose name equals id, false when no key has that    *)
(* name (a null id or a null name matches nothing), and changes no state.  *)
Matches(id) == {i \in Keys : id # nullptr /\ m_keys[i].name = id}

C10_IsPressedFirstMatch ==
  [][ last'.op = "isPressed"
        => LET M == Matches(last'.arg)
           IN  /\ last'.ret = IF M = {} THEN FALSE
                              ELSE m_states[CHOOSE i \in M : \A j \in M : i <= j].pressed
               /\ UNCHANGED <<dev, env>> ]_vars

(* C10 witness: isPressed returned true for a name two keys share, the     *)
(* first of them pressed and the second released.                          *)
C10_Witness ==
  /\ last.op = "isPressed" /\ last.ret
  /\ \E i, j \in Keys : /\ i < j
                        /\ m_keys[i].name = last.arg /\ m_keys[j].name = last.arg
                        /\ m_states[i].pressed /\ ~m_states[j].pressed

C13_PressTimeNotAhead ==
  \A i \in Keys :
    m_states[i].pressed
      => /\ m_states[i].pressTime <= clock
         /\ h_pressAt[i] >= 0
         /\ clock - m_states[i].pressTime = h_time - h_pressAt[i]
         /\ getStatus(clock, m_keys, m_states)[i].pressDuration = h_time - h_pressAt[i]

(* C13 witness: a key is pressed whose press was registered after time     *)
(* zero and before now.                                                    *)
C13_Witness ==
  \E i \in Keys : /\ m_states[i].pressed
                  /\ 0 < m_states[i].pressTime /\ m_states[i].pressTime < clock

(* C16: while the handler runs for the release of key i, key i shows       *)
(* released, every key before i shows the state this poll leaves it in,    *)
(* every key after i the state it had before this poll; isPressed(name)    *)
(* shows the same for each key that is the first of its name.              *)
C16_CallbackMidScan ==
  [][ last'.op = "update" =>
        \A k \in 1..Len(last'.fired) :
          LET ev == last'.fired[k]
              i  == ev.key
          IN  /\ ~ev.flags[i]
              /\ \A j \in Keys : j < i => ev.flags[j] = m_states'[j].pressed
              /\ \A j \in Keys : j > i => ev.flags[j] = m_states[j].pressed
              /\ \A j \in Keys :
                   (/\ m_keys[j].name # nullptr
                    /\ \A h \in Keys : h < j => m_keys[h].name # m_keys[j].name)
                     => ev.seen[m_keys[j].name] = ev.flags[j] ]_vars

(* C16 witness: the handler ran for the release of the first key while the *)
(* second key still showed a state that this same poll then changed.       *)
C16_Witness ==
  /\ last.op = "update"
  /\ \E k \in 1..Len(last.fired) :
       /\ last.fired[k].key = 1
       /\ last.fired[k].flags[2] # m_states[2].pressed

(* C17: right after an accepted update() every key's settled pressed flag  *)
(* equals the raw level sampled for it in that poll.                       *)
C17_SettledFollowsSample ==
  (last.op = "update" /\ last.accepted)
    => \A i \in Keys : m_states[i].pressed = Raw(i)

(* C17 witness: an accepted poll brought both keys, one pressed and one    *)
(* released, in line with their pins.                                      *)
C17_Witness ==
  /\ last.op = "update" /\ last.accepted /\ last.ret
  /\ \E i, j \in Keys : m_states[i].pressed /\ ~m_states[j].pressed

(* C19: an accepted poll that follows an accepted poll with no clear()     *)
(* between them comes at least debounceMs (as set when it is made) after   *)
(* it.                                                                     *)
C19_AcceptedPollsSpaced ==
  [][ (last'.op = "update" /\ last'.accepted /\ h_gate >= 0)
        => h_time - h_gate >= m_debounceMs ]_vars

(* C19 witness: with a debounce interval above zero, a poll was accepted   *)
(* after an earlier accepted poll, no clear() between them.                *)
C19_Witness ==
  last.op = "update" /\ last.spaced /\ m_debounceMs > 0

(* C19, second half: a poll accepted directly after clear(), less than     *)
(* debounceMs after the previous update() call, which was accepted too.    *)
(* TLC reaches this state.                                                 *)
C19_ClearBreaksSpacing ==
  last.op = "update" /\ last.quick

(* C20: when clear() dropped the registered press of a key whose button    *)
(* stays down, no handler call is made for that key until a poll registers *)
(* it again; the next accepted update() returns true and registers a press *)
(* at its own time; and every release is reported with the time elapsed    *)
(* since the press registered last.                                        *)
C20_ClearWhileHeld ==
  [][ last'.op = "update" =>
        \A i \in Keys :
          /\ h_lost[i] => Calls(i, last'.fired) = {}
          /\ (h_lost[i] /\ last'.accepted /\ Raw(i))
               => /\ last'.ret
                  /\ m_states'[i] = KeyState(TRUE, clock)
                  /\ h_pressAt'[i] = h_time
          /\ \A k \in Calls(i, last'.fired) :
               last'.fired[k].e.pressDuration = h_time - h_pressAt[i] ]_vars

(* C20 witness: with a handler registered, a poll at a clock value above   *)
(* zero registered anew a key whose press clear() had dropped, and called  *)
(* no handler.                                                             *)
C20_Witness ==
  /\ last.op = "update" /\ last.repressed /\ m_callback /\ clock > 0
  /\ last.fired = <<>>

(* C14 as stated: an update() called at a clock value below that of the    *)
(* last accepted poll returns false, registers no transition and calls no  *)
(* handler.                                                                *)
C14_Original ==
  [][ (last'.op = "update" /\ clock < lastRead)
        => /\ last'.ret = FALSE
           /\ m_states' = m_states
           /\ last'.fired = <<>> ]_vars

(* C14 amended: an update() called at a clock value below that of the last *)
(* accepted poll returns false without effect only when 2^w - (lastRead -  *)
(* now) < debounceMs; otherwise the poll is accepted as after a wrap of    *)
(* the counter: lastRead becomes now, every key's settled flag follows its *)
(* raw level and a release is reported with the duration (now - pressTime) *)
(* modulo 2^w.                                                             *)
C14_ClockBehindIsWrap ==
  [][ (last'.op = "update" /\ clock < lastRead)
        => IF Modulus - (lastRead - clock) < m_debounceMs
           THEN /\ last'.ret = FALSE
                /\ m_states' = m_states
                /\ lastRead' = lastRead
                /\ last'.fired = <<>>
           ELSE /\ last'.accepted
                /\ lastRead' = clock
                /\ \A i \in Keys : m_states'[i].pressed = Raw(i)
                /\ \A k \in 1..Len(last'.fired) :
                     LET t == m_states[last'.fired[k].key].pressTime
                     IN  last'.fired[k].e.pressDuration =
                           IF clock >= t THEN clock - t ELSE Modulus - (t - clock) ]_vars

(* C14 witness: a poll made with the clock below lastRead was accepted and *)
(* changed a key's settled state.                                          *)
C14_Witness ==
  last.op = "update" /\ last.behind /\ last.accepted /\ last.ret

(* C18: across a wrap of the millisecond counter a release is reported     *)
(* with the time that really passed since the press was registered, the    *)
(* press counts as long exactly when that time reaches the key's hold      *)
(* threshold, and a poll that follows an accepted poll is accepted exactly *)
(* when the time that really passed since it reaches the debounce interval.*)
C18_WrapSafe ==
  [][ last'.op = "update"
        => /\ h_gate >= 0
                => (last'.accepted <=> h_time - h_gate >= m_debounceMs)
           /\ \A k \in 1..Len(last'.fired) :
                LET i == last'.fired[k].key
                    D == h_time - h_pressAt[i]
                IN  /\ last'.fired[k].e.pressDuration = D
                    /\ last'.fired[k].e.isLongPress = (D >= m_keys[i].holdTimeMs) ]_vars

(* C18 witness: a poll made after the counter wrapped (clock below the     *)
(* time of the last accepted poll) reported the release of a key whose     *)
(* press was registered before the wrap, with a duration above zero.       *)
C18_Witness ==
  /\ last.op = "update" /\ last.behind
  /\ \E k \in 1..Len(last.fired) :
       /\ m_states[last.fired[k].key].pressTime > clock
       /\ last.fired[k].e.pressDuration > 0

(* A rejected poll across the wrap: the counter wrapped since the last     *)
(* accepted poll and less than the debounce interval has passed.           *)
C18_GateAcrossWrap ==
  last.op = "update" /\ last.behind /\ ~last.accepted /\ h_gate >= 0

(* C15: in the scenario, UP held from t = 0 and let go at t = 500 gives    *)
(* exactly one call of the handler, with {UP, not long, 500}; DOWN held    *)
(* from t = 0 and let go at t = 900 gives exactly one call, with {DOWN,    *)
(* long, 900}; with both keys held from t = 0, getStatus() after the poll  *)
(* at t = 20 reports both pressed for 20 ms and neither long.              *)
C15_Scenario ==
  [][ /\ last'.op = "update"
        => /\ \A k \in Calls(1, last'.fired) :
                last'.fired[k].e = KeyEvent("UP", FALSE, 500)
           /\ \A k \in Calls(2, last'.fired) :
                last'.fired[k].e = KeyEvent("DOWN", TRUE, 900)
           /\ Cardinality(Calls(1, last'.fired)) =
                IF clock = 500 /\ m_states[1].pressed THEN 1 ELSE 0
           /\ Cardinality(Calls(2, last'.fired)) =
                IF clock = 900 /\ m_states[2].pressed THEN 1 ELSE 0
      /\ (last'.op = "getStatus" /\ clock = 20 /\ \A i \in Keys : Raw(i))
        => \A i \in Keys :
             /\ last'.out[i].isPressed
             /\ last'.out[i].pressDuration = 20
             /\ ~last'.out[i].isLongPress ]_vars

(* What the scenario gives: the poll at t = 0 is rejected by the gate      *)
(* (0 - lastRead = 0 < 20), so each press is registered by the poll at     *)
(* t = 20 and every duration is 20 ms short.                               *)
C15_AsCoded ==
  [][ /\ last'.op = "update"
        => /\ \A k \in Calls(1, last'.fired) :
                last'.fired[k].e = KeyEvent("UP", FALSE, 500 - m_debounceMs)
           /\ \A k \in Calls(2, last'.fired) :
                last'.fired[k].e = KeyEvent("DOWN", TRUE, 900 - m_debounceMs)
           /\ Cardinality(Calls(1, last'.fired)) =
                IF clock = 500 /\ m_states[1].pressed THEN 1 ELSE 0
           /\ Cardinality(Calls(2, last'.fired)) =
                IF clock = 900 /\ m_states[2].pressed THEN 1 ELSE 0
           /\ clock = 0 => ~last'.accepted
      /\ (last'.op = "getStatus" /\ clock = 20 /\ \A i \in Keys : Raw(i))
        => \A i \in Keys :
             /\ last'.out[i].isPressed
             /\ last'.out[i].pressDuration = 0
             /\ ~last'.out[i].isLongPress ]_vars

(* The scenario runs to its end: the release of DOWN at t = 900 is         *)
(* reported to the handler.                                                *)
C15_Reported ==
  last.op = "update" /\ clock = 900 /\ Calls(2, last.fired) # {}

====
